---- MODULE Spec2Model ----
(***************************************************************************)
(* Model of app.py: a Flask application with two endpoints (/update,       *)
(* /unsubscribe) served by request threads, and an APScheduler             *)
(* BackgroundScheduler whose single job (daily_task) runs on a timer       *)
(* thread.  All threads share the module globals acc, identified, photos,  *)
(* taxon_name, previous_result_count, is_subscribed and the scheduler's    *)
(* job store; nothing in app.py serialises access to them, so the model    *)
(* interleaves the threads at the level of one global read or write (one   *)
(* source line) per step.                                                  *)
(*                                                                         *)
(* Python values are modelled as strings: None is "None", the booleans     *)
(* are "True" and "False".  previous_result_count is an integer.           *)
(***************************************************************************)
EXTENDS Integers, Sequences, FiniteSets, TLC

\* ------------------------------------------------------------------ bounds

\* total_results values the external API answers with: 0..MaxTotal
MaxTotal == 1

\* ---------------------------------------------------------------- threads

\* Flask's development server (app.run) serves each request on its own thread
ReqThreads == {"r1", "r2"}

\* the BackgroundScheduler runs at most one instance of a job at a time
Timer == "timer"

Threads == ReqThreads \cup {Timer}

\* ----------------------------------------------------------------- values

None == "None"

Keys == {"acc", "identified", "photos", "taxon_name"}

\* job_id = 'daily_task'
job_id == "daily_task"

\* previous_result_count: Optional[int] = -1
InitialCount == -1

\* JSON bodies POSTed to /update: two complete ones, one without 'taxon_name',
\* one without 'acc', and one whose 'acc' is JSON null
BodyA == [acc |-> "True", identified |-> "True", photos |-> "True", taxon_name |-> "a"]

BodyB == [acc |-> "False", identified |-> "True", photos |-> "True", taxon_name |-> "b"]

BodyNoTaxon == [acc |-> "False", identified |-> "True", photos |-> "True"]

BodyNoAcc == [identified |-> "True", photos |-> "True", taxon_name |-> "b"]

BodyNull == [acc |-> None, identified |-> "True", photos |-> "True", taxon_name |-> "a"]

Bodies == {BodyA, BodyB, BodyNoTaxon, BodyNoAcc, BodyNull}

NoBody == [k \in {} |-> None]

\* what requests.get / raise_for_status / response.json() can hand back; the
\* call passes no timeout, so a server that never answers is waited for ("hang")
ApiOutcomes == {"fail", "nofield", "nonint", "int", "hang"}

\* what the smtplib block of send_email can end with; smtplib.SMTP is given no
\* timeout either
SmtpOutcomes == {"sent", "failed", "hang"}

VARIABLES
    acc, identified, photos, taxon_name,  \* the FilterSet globals
    previous_result_count,                \* the stored ObservationCount
    is_subscribed,                        \* SubscriptionState
    jobs,                                 \* the scheduler's job store
    pc,                                   \* each thread's position
    body,                                 \* request.json of the update in progress
    total_results,                        \* check_species_count's local
    arg_taxon_name,                       \* check_species_count's parameter taxon_name
    track_args,                           \* whether arg_taxon_name is recorded (SpecArgs)
    startSub,                             \* is_subscribed when the update in progress began
    resp,                                 \* how the handler or job run just ended
    err                                   \* the missing key, the exception or the error logged

globals == <<acc, identified, photos, taxon_name, previous_result_count, is_subscribed, jobs>>

\* the locals other than resp and err, which Goto and Finish account for
work == <<body, total_results, arg_taxon_name, startSub>>

vars == <<acc, identified, photos, taxon_name, previous_result_count, is_subscribed, jobs,
          pc, body, total_results, arg_taxon_name, track_args, startSub, resp, err>>

\* the filter globals as the tuple both callers pass to check_species_count
Filters == [acc |-> acc, identified |-> identified, photos |-> photos,
            taxon_name |-> taxon_name]

\* a job with the fixed id is in the job store
Registered == \E j \in jobs : j.id = job_id

\* state after the module body and lines 174-175 have run
Start ==
    /\ acc = None
    /\ identified = None
    /\ photos = None
    /\ taxon_name = None
    /\ previous_result_count = InitialCount
    /\ is_subscribed = TRUE
    /\ jobs = {[id |-> job_id, trigger |-> "interval"]}
    /\ pc = [t \in Threads |-> "idle"]
    /\ body = [t \in Threads |-> NoBody]
    /\ total_results = [t \in Threads |-> 0]
    /\ arg_taxon_name = [t \in Threads |-> None]
    /\ startSub = [t \in Threads |-> TRUE]
    /\ resp = [t \in Threads |-> "none"]
    /\ err = [t \in Threads |-> "none"]

Init == Start /\ track_args = FALSE

\* the same state, with the arguments of check_species_count recorded from here on
InitArgs == Start /\ track_args = TRUE

\* the argument check_species_count receives for taxon_name; it bears on no
\* statement of the function but the text of the message, and is recorded only
\* under SpecArgs
Passed(v) == IF track_args THEN v ELSE None

\* the locals of check_species_count are gone once it is left
ClearCheck(t) ==
    /\ total_results' = [total_results EXCEPT ![t] = 0]
    /\ arg_taxon_name' = [arg_taxon_name EXCEPT ![t] = None]

\* the handler or job on thread t ends: its response (or exception) is recorded
Finish(t, r, e) ==
    /\ pc' = [pc EXCEPT ![t] = "done"]
    /\ resp' = [resp EXCEPT ![t] = r]
    /\ err' = [err EXCEPT ![t] = e]
    /\ body' = [body EXCEPT ![t] = NoBody]
    /\ startSub' = [startSub EXCEPT ![t] = TRUE]
    /\ ClearCheck(t)
    /\ UNCHANGED track_args

\* thread t goes on to line l of the function it is in
Goto(t, l) ==
    /\ pc' = [pc EXCEPT ![t] = l]
    /\ UNCHANGED <<resp, err, track_args>>

\* ------------------------------------------------------ check_species_count

\* `previous_result_count is not None` (line 100)
IsNotNone(v) == v \in Int

\* the condition of line 100, on the stored count and the parsed total
ShouldNotify(prev, new) == IsNotNone(prev) /\ new > prev

\* the difference the message of lines 101-104 reports
Delta(t) == total_results[t] - previous_result_count

\* check_species_count returns to its caller, having logged the error `note` (or
\* none): update goes on to line 146, daily_task (and with it the job run) ends
CheckReturn(t, note) ==
    IF t \in ReqThreads
       THEN Goto(t, "u146") /\ ClearCheck(t) /\ UNCHANGED <<body, startSub>>
       ELSE Finish(t, "job_ok", note)

\* C14 mutant: an exception that leaves check_species_count ends the thread
CheckRaiseFatal(t, e) ==
    /\ pc' = [pc EXCEPT ![t] = "crashed"]
    /\ resp' = [resp EXCEPT ![t] = "none"]
    /\ err' = [err EXCEPT ![t] = e]
    /\ body' = [body EXCEPT ![t] = NoBody]
    /\ startSub' = [startSub EXCEPT ![t] = TRUE]
    /\ ClearCheck(t)
    /\ UNCHANGED track_args

\* an exception leaves check_species_count: neither update (which catches KeyError
\* alone) nor daily_task catches it; Flask answers 500, APScheduler logs the run
CheckRaise(t, e) ==
    IF t \in ReqThreads THEN Finish(t, "500", e) ELSE Finish(t, "job_error", e)

\* C7 mutant: the failure branches put the stored count back to its first value
CountAfterFailureReset == InitialCount

\* lines 93-95 and 108-109: both branches leave the stored count as it is
CountAfterFailure == previous_result_count

\* lines 88-98 and 108-109: the request, raise_for_status, json(), the field test
Check89(t) ==
    /\ pc[t] = "c89"
    /\ \E o \in ApiOutcomes :
          \/ /\ o = "fail"
             /\ CheckReturn(t, "api_failed")
             /\ previous_result_count' = CountAfterFailure
          \/ /\ o = "nofield"
             /\ CheckReturn(t, "format_error")
             /\ previous_result_count' = CountAfterFailure
          \/ /\ o = "nonint"
             \* total_results is null or a string: the comparison of line 100 raises
             /\ CheckRaise(t, "TypeError")
             /\ UNCHANGED previous_result_count
          \/ /\ o = "int"
             /\ \E n \in 0..MaxTotal : total_results' = [total_results EXCEPT ![t] = n]
             /\ Goto(t, "c100")
             /\ UNCHANGED <<body, arg_taxon_name, startSub, previous_result_count>>
          \/ /\ o = "hang"
             \* the thread stays inside requests.get: no step leads out of "w89",
             \* and the locals of the check are not read again
             /\ Goto(t, "w89") /\ ClearCheck(t)
             /\ UNCHANGED <<body, startSub, previous_result_count>>
    /\ UNCHANGED <<acc, identified, photos, taxon_name, is_subscribed, jobs>>

\* line 100: read the stored count and decide
Check100(t) ==
    /\ pc[t] = "c100"
    /\ IF ShouldNotify(previous_result_count, total_results[t])
          THEN Goto(t, "c105")
          ELSE Goto(t, "c107")
    /\ UNCHANGED <<globals, work>>

\* url_for (line 48, before the try of line 54) needs the application context of
\* a request, which the scheduler's thread does not have: RuntimeError
UrlForRaises(t) == t \notin ReqThreads

\* lines 101-105 and send_email (35-65): the message is built from the stored
\* count as it is now (Delta); the smtplib block swallows every exception
Check105(t) ==
    /\ pc[t] = "c105"
    /\ IF UrlForRaises(t)
          THEN CheckRaise(t, "RuntimeError")
          ELSE \E m \in SmtpOutcomes :
                  IF m = "hang"
                     \* the thread stays inside smtplib: no step leads out of "w105"
                     THEN Goto(t, "w105") /\ ClearCheck(t) /\ UNCHANGED <<body, startSub>>
                     \* sent or not, send_email logs and returns None
                     ELSE Goto(t, "c107") /\ UNCHANGED work
    /\ UNCHANGED globals

\* line 107
Check107(t) ==
    /\ pc[t] = "c107"
    /\ previous_result_count' = total_results[t]
    /\ CheckReturn(t, "none")
    /\ UNCHANGED <<acc, identified, photos, taxon_name, is_subscribed, jobs>>

\* ---------------------------------------------------------------- scheduler

\* scheduler.add_job(..., id=job_id) without replace_existing: the job store
\* refuses a second job with an id it already holds (ConflictingIdError)
AddJobConflicts == Registered

add_job(trigger) == jobs \cup {[id |-> job_id, trigger |-> trigger]}

\* scheduler.remove_job(job_id): JobLookupError when no job has the id
RemoveJobFails == ~Registered

remove_job == {j \in jobs : j.id # job_id}

\* ------------------------------------------------------------------- update

\* request.json[k] raises KeyError for a missing key; line 153 answers 400
HasKey(b, k) == k \in DOMAIN b

KeyError(t, k) == Finish(t, "400", k)

\* a POST /update arrives on a free request thread; line 134
Update134(t) ==
    /\ pc[t] = "idle"
    /\ \E b \in Bodies :
          IF HasKey(b, "acc")
             THEN /\ acc' = b.acc
                  /\ body' = [body EXCEPT ![t] = b]
                  /\ startSub' = [startSub EXCEPT ![t] = is_subscribed]
                  /\ Goto(t, "u135")
                  /\ UNCHANGED <<total_results, arg_taxon_name>>
             ELSE KeyError(t, "acc") /\ UNCHANGED acc
    /\ UNCHANGED <<identified, photos, taxon_name, previous_result_count, is_subscribed,
                   jobs>>

\* line 135
Update135(t) ==
    /\ pc[t] = "u135"
    /\ IF HasKey(body[t], "identified")
          THEN identified' = body[t].identified /\ Goto(t, "u136") /\ UNCHANGED work
          ELSE KeyError(t, "identified") /\ UNCHANGED identified
    /\ UNCHANGED <<acc, photos, taxon_name, previous_result_count, is_subscribed, jobs>>

\* line 136
Update136(t) ==
    /\ pc[t] = "u136"
    /\ IF HasKey(body[t], "photos")
          THEN photos' = body[t].photos /\ Goto(t, "u137") /\ UNCHANGED work
          ELSE KeyError(t, "photos") /\ UNCHANGED photos
    /\ UNCHANGED <<acc, identified, taxon_name, previous_result_count, is_subscribed,
                   jobs>>

\* line 137; request.json is not read again
Update137(t) ==
    /\ pc[t] = "u137"
    /\ IF HasKey(body[t], "taxon_name")
          THEN /\ taxon_name' = body[t].taxon_name
               /\ Goto(t, "u140")
               /\ body' = [body EXCEPT ![t] = NoBody]
               /\ UNCHANGED <<total_results, arg_taxon_name, startSub>>
          ELSE KeyError(t, "taxon_name") /\ UNCHANGED taxon_name
    /\ UNCHANGED <<acc, identified, photos, previous_result_count, is_subscribed, jobs>>

\* line 140
Update140(t) ==
    /\ pc[t] = "u140"
    /\ previous_result_count' = 0
    /\ Goto(t, "u143")
    /\ UNCHANGED <<acc, identified, photos, taxon_name, is_subscribed, jobs, work>>

\* line 143: the call passes the globals as they are now (Filters)
Update143(t) ==
    /\ pc[t] = "u143"
    /\ arg_taxon_name' = [arg_taxon_name EXCEPT ![t] = Passed(Filters.taxon_name)]
    /\ Goto(t, "c89")
    /\ UNCHANGED <<globals, body, total_results, startSub>>

\* C19 mutant: update goes on to restart the job whatever is_subscribed is
Update146Rearm(t) ==
    /\ pc[t] = "u146"
    /\ Goto(t, "u147") /\ UNCHANGED work
    /\ UNCHANGED globals

\* line 146, and line 151 when the job is not to be restarted
Update146(t) ==
    /\ pc[t] = "u146"
    /\ IF ~is_subscribed
          THEN Goto(t, "u147") /\ UNCHANGED work
          ELSE Finish(t, "200", "none")
    /\ UNCHANGED globals

\* line 147
Update147(t) ==
    /\ pc[t] = "u147"
    /\ IF AddJobConflicts
          THEN Finish(t, "500", "ConflictingIdError") /\ UNCHANGED jobs
          ELSE jobs' = add_job("cron") /\ Goto(t, "u148") /\ UNCHANGED work
    /\ UNCHANGED <<acc, identified, photos, taxon_name, previous_result_count,
                   is_subscribed>>

\* lines 148-151
Update148(t) ==
    /\ pc[t] = "u148"
    /\ is_subscribed' = TRUE
    /\ Finish(t, "200", "none")
    /\ UNCHANGED <<acc, identified, photos, taxon_name, previous_result_count, jobs>>

\* -------------------------------------------------------------- unsubscribe

\* C5 mutant: unsubscribe without the test of line 165
Unsubscribe165NoTest(t) ==
    /\ pc[t] = "idle"
    /\ Goto(t, "x166")
    /\ UNCHANGED <<globals, work>>

\* a GET /unsubscribe arrives on a free request thread; line 165, and line 171
\* when already unsubscribed
Unsubscribe165(t) ==
    /\ pc[t] = "idle"
    /\ IF is_subscribed
          THEN Goto(t, "x166") /\ UNCHANGED work
          ELSE Finish(t, "already", "none")
    /\ UNCHANGED globals

\* line 166
Unsubscribe166(t) ==
    /\ pc[t] = "x166"
    /\ IF RemoveJobFails
          THEN Finish(t, "500", "JobLookupError") /\ UNCHANGED jobs
          ELSE jobs' = remove_job /\ Goto(t, "x167") /\ UNCHANGED work
    /\ UNCHANGED <<acc, identified, photos, taxon_name, previous_result_count,
                   is_subscribed>>

\* lines 167-169
Unsubscribe167(t) ==
    /\ pc[t] = "x167"
    /\ is_subscribed' = FALSE
    /\ Finish(t, "unsubscribed", "none")
    /\ UNCHANGED <<acc, identified, photos, taxon_name, previous_result_count, jobs>>

\* --------------------------------------------------------------- daily_task

\* `None in [acc, identified, photos, taxon_name]` (line 117)
NoneInFilters(f) == \E k \in Keys : f[k] = None

\* C12 mutant: the scheduler starts a run whether or not a job is registered
Daily117Unarmed ==
    /\ pc[Timer] = "idle"
    /\ IF NoneInFilters(Filters)
          THEN Finish(Timer, "job_noop", "none")
          ELSE Goto(Timer, "d121") /\ UNCHANGED work
    /\ UNCHANGED globals

\* the scheduler starts a run of the registered job on its thread; lines 117-119
Daily117 ==
    /\ pc[Timer] = "idle"
    /\ Registered
    /\ IF NoneInFilters(Filters)
          THEN Finish(Timer, "job_noop", "none")
          ELSE Goto(Timer, "d121") /\ UNCHANGED work
    /\ UNCHANGED globals

\* line 121: the call passes the globals as they are now (Filters)
Daily121 ==
    /\ pc[Timer] = "d121"
    /\ arg_taxon_name' = [arg_taxon_name EXCEPT ![Timer] = Passed(Filters.taxon_name)]
    /\ Goto(Timer, "c89")
    /\ UNCHANGED <<globals, body, total_results, startSub>>

\* ------------------------------------------------------------- the program

\* the response has gone out (or the job run is over): the thread is free again
Return(t) ==
    /\ pc[t] = "done"
    /\ pc' = [pc EXCEPT ![t] = "idle"]
    /\ resp' = [resp EXCEPT ![t] = "none"]
    /\ err' = [err EXCEPT ![t] = "none"]
    /\ UNCHANGED <<globals, work, track_args>>

Next ==
    \/ \E t \in ReqThreads : Update134(t)
    \/ \E t \in ReqThreads : Update135(t)
    \/ \E t \in ReqThreads : Update136(t)
    \/ \E t \in ReqThreads : Update137(t)
    \/ \E t \in ReqThreads : Update140(t)
    \/ \E t \in ReqThreads : Update143(t)
    \/ \E t \in ReqThreads : Update146(t)
    \/ \E t \in ReqThreads : Update147(t)
    \/ \E t \in ReqThreads : Update148(t)
    \/ \E t \in ReqThreads : Unsubscribe165(t)
    \/ \E t \in ReqThreads : Unsubscribe166(t)
    \/ \E t \in ReqThreads : Unsubscribe167(t)
    \/ Daily117
    \/ Daily121
    \/ \E t \in Threads : Check89(t)
    \/ \E t \in Threads : Check100(t)
    \/ \E t \in Threads : Check105(t)
    \/ \E t \in Threads : Check107(t)
    \/ \E t \in Threads : Return(t)

Spec == Init /\ [][Next]_vars

\* the same program with the arguments of check_species_count recorded
SpecArgs == InitArgs /\ [][Next]_vars

\* ================================================================== claims

\* thread t takes the step
Steps(t) == pc'[t] # pc[t]

\* the positions inside check_species_count once a total has been parsed
Parsed == {"c100", "c105", "w105", "c107"}

\* the stored count is neither None nor the value the module starts with
CountIsSet == previous_result_count \in Int /\ previous_result_count # InitialCount

\* C1: a check that has parsed a total goes on to call send_email if and only if
\* the stored count was set and the total is greater than the stored count
C1_NotifiesIffSetAndIncreased ==
    [][\A t \in Threads :
          (pc[t] = "c100" /\ Steps(t)) =>
             ((pc'[t] = "c105") <=>
                 (CountIsSet /\ total_results[t] > previous_result_count))]_vars

\* C2: when a check that parsed a total is over, whether it notified or not, the
\* stored count is that total
C2_StoredIsParsedTotal ==
    [][\A t \in Threads :
          (pc[t] \in Parsed /\ pc'[t] \notin Parsed) =>
             previous_result_count' = total_results[t]]_vars

\* the update in progress on thread t has a body without one of the four fields
LacksField(t) == pc[t] \in {"u135", "u136", "u137"} /\ ~(Keys \subseteq DOMAIN body[t])

\* C3: no step of an update whose input lacks a field changes a filter global, the
\* stored count or the subscription state or starts a check, and the update ends
\* with a 400 that names a field the input lacks
C3_RejectedUpdateChangesNothing ==
    [][\A t \in ReqThreads :
          (LacksField(t) /\ Steps(t)) =>
             /\ UNCHANGED <<acc, identified, photos, taxon_name, previous_result_count,
                            is_subscribed>>
             /\ pc'[t] \in {"u135", "u136", "u137", "done"}
             /\ pc'[t] = "done" =>
                   (resp'[t] = "400" /\ err'[t] \in Keys \ DOMAIN body[t])]_vars

\* C4: when the immediate check of an update compares a total N > 0 with the
\* stored count, the stored count is 0 and the check goes on to notify, once
C4_UpdateNotifiesOnce ==
    [][\A t \in ReqThreads :
          (pc[t] = "c100" /\ Steps(t) /\ total_results[t] > 0) =>
             (previous_result_count = 0 /\ pc'[t] = "c105")]_vars

CronArmed == [id |-> job_id, trigger |-> "cron"] \in jobs

\* C6: an update with all four fields that began in the state Unsubscribed ends,
\* however its check went, with the state Subscribed and the daily job armed;
\* the state changes only to Unsubscribed at line 167 and to Subscribed at line 148
C6_UpdateResubscribes ==
    [][/\ \A t \in ReqThreads :
             (pc[t] \in {"u140", "u143", "c89", "c100", "c105", "c107", "u146", "u147",
                         "u148"}
                /\ pc'[t] = "done" /\ ~startSub[t]) =>
                (is_subscribed' /\ CronArmed')
       /\ (is_subscribed /\ ~is_subscribed') =>
             \E t \in ReqThreads : pc[t] = "x167" /\ Steps(t)
       /\ (~is_subscribed /\ is_subscribed') =>
             \E t \in ReqThreads : pc[t] = "u148" /\ Steps(t)]_vars

\* C7: a check whose request fails or whose response has no total_results
\* returns at once with the stored count as it was and without calling send_email
C7_FailedCheckChangesNothing ==
    [][\A t \in Threads :
          (pc[t] = "c89" /\ Steps(t) /\ pc'[t] \notin {"c100", "w89"}) =>
             /\ previous_result_count' = previous_result_count
             /\ pc'[t] \in {"u146", "done"}]_vars

\* C7 witness: a scheduled check has ended on a failed request or a response
\* without the field, after an update had set the count
C7_Witness ==
    /\ pc[Timer] = "done"
    /\ resp[Timer] = "job_ok"
    /\ err[Timer] \in {"api_failed", "format_error"}
    /\ previous_result_count = MaxTotal

\* C8: a check that calls send_email, on a request thread or on the scheduler's,
\* gets control back whatever happens inside, and stores the new total
C8_NotifierFailureSwallowed ==
    [][\A t \in Threads :
          /\ (pc[t] = "c105" /\ Steps(t)) => pc'[t] \in {"c107", "w105"}
          /\ (pc[t] = "c107" /\ Steps(t)) =>
                previous_result_count' = total_results[t]]_vars

\* C9: check_species_count is never called with a filter that is None
C9_CheckNeverGetsNone ==
    [][\A t \in Threads :
          (pc[t] \in {"u143", "d121"} /\ pc'[t] = "c89") => ~NoneInFilters(Filters)]_vars

\* the jobs that carry the fixed id
Named == {j \in jobs : j.id = job_id}

\* C10: the job store never holds two jobs with the fixed id, and an add_job
\* that finds one registered replaces it: it neither fails nor adds a second
C10_OneJobRearmReplaces ==
    [][/\ Cardinality(Named) <= 1
       /\ \A t \in ReqThreads :
             (pc[t] = "u147" /\ Steps(t) /\ Registered) =>
                (pc'[t] = "u148" /\ Named' = {[id |-> job_id, trigger |-> "cron"]})]_vars

\* the positions of a check between its read of the stored count for the
\* comparison (line 100, done) and its write of the new total (line 107, to do)
Critical == {"c105", "w105", "c107"}

\* C11: no two checks are at once between the read of the stored count for the
\* comparison and the write of the new total
C11_ChecksMutuallyExclusive ==
    \A t \in Threads : \A u \in Threads \ {t} :
        ~(pc[t] \in Critical /\ pc[u] \in Critical)

\* C12: a run of daily_task begins only while the job is registered; the
\* remove_job of an unsubscribe leaves no job registered, and a job comes back
\* only by line 147 of an update; no step of an unsubscribe touches the position
\* or the locals of a run of daily_task that is under way
C12_UnsubscribeStopsFirings ==
    [][/\ (pc[Timer] = "idle" /\ Steps(Timer)) => Registered
       /\ \A t \in ReqThreads :
             (pc[t] = "x166" /\ pc'[t] = "x167") => ~Registered'
       /\ (~Registered /\ Registered') =>
             \E t \in ReqThreads : pc[t] = "u147" /\ pc'[t] = "u148"
       /\ \A t \in ReqThreads :
             (pc[t] \in {"x166", "x167"} /\ Steps(t)) =>
                /\ pc'[Timer] = pc[Timer]
                /\ total_results'[Timer] = total_results[Timer]
                /\ arg_taxon_name'[Timer] = arg_taxon_name[Timer]]_vars

\* C12 witness: an unsubscribe has answered success, no job is registered, and
\* the scheduled check that was under way has gone on to its comparison
C12_Witness ==
    /\ \E t \in ReqThreads : pc[t] = "done" /\ resp[t] = "unsubscribed"
    /\ ~Registered
    /\ ~is_subscribed
    /\ pc[Timer] = "c100"

\* C13: the stored count is its first (unset) value or an integer >= 0, and a
\* check that is about to notify found a stored count >= 0, so that the
\* difference it reports is not greater than the total it reports
C13_NotifiesOnlyWithCountSet ==
    /\ previous_result_count = InitialCount \/ previous_result_count >= 0
    /\ \A t \in Threads :
          pc[t] = "c105" =>
             (previous_result_count >= 0 /\ Delta(t) <= total_results[t])

\* the positions inside check_species_count
InCheck == {"c89", "w89", "c100", "c105", "w105", "c107"}

\* C14: a thread that has ended a handler or a job run can become free again, a
\* free request thread accepts an update and an unsubscribe, and the scheduler
\* starts a run whenever a job is registered and its thread is free; no step
\* of a check, failing or not, changes the job store, and a check ends by
\* returning to its caller or by ending its handler or job run, after which
\* the thread becomes free
C14_FailureStopsNothing ==
    /\ [](/\ \A t \in Threads : pc[t] = "done" => ENABLED Return(t)
          /\ \A t \in ReqThreads :
                pc[t] = "idle" => (ENABLED Update134(t) /\ ENABLED Unsubscribe165(t))
          /\ (pc[Timer] = "idle" /\ Registered) => ENABLED Daily117)
    /\ [][/\ \A t \in Threads :
                (pc[t] \in InCheck /\ Steps(t)) =>
                   (jobs' = jobs /\ pc'[t] \in InCheck \cup {"u146", "done"})
          /\ \A t \in Threads :
                (pc[t] = "done" /\ Steps(t)) => (pc'[t] = "idle" /\ jobs' = jobs)]_vars

\* C14 witness: a requested check and a scheduled check have both raised, the
\* job is still registered, and the third thread is serving an update
C14_Witness ==
    /\ pc[Timer] = "done" /\ resp[Timer] = "job_error"
    /\ pc["r1"] = "done" /\ resp["r1"] = "500" /\ err["r1"] = "TypeError"
    /\ pc["r2"] = "u140"
    /\ Registered

\* the positions of a thread inside a call that was given no timeout
Waiting == {"w89", "w105"}

\* C15: no check is ever inside an outbound call that has no bound on the time
\* it waits for the API or the SMTP server
C15_OutboundCallsBounded ==
    \A t \in Threads : pc[t] \notin Waiting

\* no update and no unsubscribe is in progress
Quiet == \A t \in ReqThreads : pc[t] \in {"idle", "done"}

\* C16: whenever no update and no unsubscribe is in progress, the state is
\* Subscribed exactly when a job with the fixed id is registered
C16_SubscribedIffRegistered ==
    Quiet => (is_subscribed <=> Registered)

\* the bodies an update accepts: line 151 is reached only with all four keys
Accepted == {b \in Bodies : Keys \subseteq DOMAIN b}

\* C17: the four filters daily_task passes to check_species_count are the four
\* fields of one accepted body
C17_ScheduledCheckUsesOneUpdate ==
    [][(pc[Timer] = "d121" /\ pc'[Timer] = "c89") => Filters \in Accepted]_vars

\* an update on thread t is between its first assignment and its check
Updating(t) == pc[t] \in {"u135", "u136", "u137", "u140", "u143"}

\* C18: when a check stores its total and leaves no check in flight and no
\* update on its way to one, the total is 0 or the check was made for the
\* taxon_name that is stored now
C18_CountBelongsToFilters ==
    [][\A t \in Threads :
          (/\ pc[t] = "c107" /\ Steps(t)
           /\ \A u \in Threads \ {t} : pc[u] \notin InCheck /\ ~Updating(u)) =>
             (previous_result_count' = 0 \/ arg_taxon_name[t] = taxon_name)]_vars

\* the job of line 174, armed at startup
IntervalArmed == [id |-> job_id, trigger |-> "interval"] \in jobs

\* the positions of an update
InUpdate == {"u135", "u136", "u137", "u140", "u143", "u146", "u147", "u148"} \cup InCheck

====
